---- MODULE Spec2Model ----
(***************************************************************************)
(* A model of src/python/transcribe.py: the command-line front end main()  *)
(* and the orchestrator transcribe(), run against a nondeterministic       *)
(* recognition engine (faster_whisper.WhisperModel, which is not part of   *)
(* the repository).  One run of the process is one behaviour: the state is *)
(* the position in the code (pc), the local variables of transcribe() and  *)
(* main(), the two output streams and the exit code.                       *)
(*                                                                         *)
(* The engine is a black box.  Each call into it (the constructor, the     *)
(* transcribe call, every pull on the lazy segment generator) either       *)
(* returns or raises an exception of some class; the segments it yields    *)
(* and the metadata it returns are drawn from bounded sets.                *)
(***************************************************************************)
EXTENDS Integers, Sequences, FiniteSets

VARIABLES
    pc,               \* position in the code
    audio,            \* args.audio
    stderr,           \* lines written to sys.stderr, in order
    stdout,           \* lines written to sys.stdout, in order
    exit_code,        \* the process exit status; Running until the process ends
    exc,              \* the exception raised inside transcribe(), or NoExc
    model_loaded,     \* WhisperModel(...) has returned
    segments,         \* transcribe(): `segments`, the list built by list(segments)
    info,             \* transcribe(): `info`
    total_segments,   \* transcribe(): `total_segments`
    i,                \* transcribe(): the loop index of enumerate(segments)
    segments_list,    \* transcribe(): `segments_list`
    full_text_parts,  \* transcribe(): `full_text_parts`
    result            \* the dict built by transcribe() and bound in main()

vars == <<pc, audio, stderr, stdout, exit_code, exc, model_loaded, segments, info,
          total_segments, i, segments_list, full_text_parts, result>>

-----------------------------------------------------------------------------
(* Bounds of the model *)

\* rich engine outputs (any text, any timestamps) have at most this many segments
MaxSegments == 2
\* plain engine outputs (one fixed segment repeated) have at most this many segments
MaxLongSegments == 5
\* a segment's text has at most this many characters
MaxTextLen == 2

-----------------------------------------------------------------------------
(* Inputs: the command line, the filesystem, the engine *)

\* the files that exist on the filesystem
Files == {"present.wav"}
\* the values --audio is given
AudioPaths == {"present.wav", "missing.wav", "gone.wav"}

\* Path(args.audio).exists()
PathExists(path) == path \in Files

\* str.strip() removes these characters
Whitespace == {" ", "\t", "\n"}
\* the characters of a segment's text
Alphabet == {" ", "a"}

RECURSIVE StringsUpTo(_)
StringsUpTo(n) ==
    IF n = 0 THEN {<<>>}
    ELSE LET shorter == StringsUpTo(n - 1)
         IN  shorter \cup {Append(s, c) : s \in {t \in shorter : Len(t) = n - 1}, c \in Alphabet}

\* the timestamps (start, end) the engine attaches to a segment: in order, or
\* the end before the start; the code copies them and never compares them
EngineTimes == {<<0, 1>>, <<1, 0>>}

\* a segment object yielded by the engine's generator
EngineSegment ==
    {[start |-> t[1], end |-> t[2], text |-> s] : t \in EngineTimes, s \in StringsUpTo(MaxTextLen)}

PlainSegment == [start |-> 0, end |-> 1, text |-> <<"a">>]

\* the engine may continue the segments it has yielded so far with seg
CanYield(yielded, seg) ==
    \/ Len(yielded) < MaxSegments /\ seg \in EngineSegment
    \/ /\ Len(yielded) < MaxLongSegments
       /\ seg = PlainSegment
       /\ \A k \in 1..Len(yielded) : yielded[k] = PlainSegment

\* info.duration: a float, an object json cannot encode, or a container that
\* holds itself
DurationValue ==
    {[tag |-> "float", v |-> 3], [tag |-> "object", v |-> 0], [tag |-> "cycle", v |-> 0]}

\* the metadata record returned by model.transcribe()
EngineInfo == {[language |-> "en", duration |-> d] : d \in DurationValue}

\* the classes of the exceptions the engine raises; OSError stands for every
\* Exception that is neither a RuntimeError nor a ValueError
ExceptionClass == {"RuntimeError", "ValueError", "OSError"}

EngineException == {[class |-> c, msg |-> "engine failure"] : c \in ExceptionClass}

NoExc == [class |-> "none", msg |-> ""]
NoInfo == [language |-> "", duration |-> [tag |-> "none", v |-> 0]]
NoResult == [text |-> <<>>, language |-> "", duration |-> [tag |-> "none", v |-> 0],
             segments |-> <<>>]
Running == -1

-----------------------------------------------------------------------------
(* The output streams *)

\* print(f"PROGRESS:{json.dumps({'percent': percent, 'status': status})}", file=sys.stderr)
\* a status is its label and, for a per-segment event, the position and the total
ProgressLine(percent, label, pos, total) ==
    [kind |-> "PROGRESS", percent |-> percent, status |-> label, pos |-> pos, total |-> total,
     detail |-> ""]

\* print(f"ERROR: {message}: {detail}", file=...)
ErrorLine(message, detail) ==
    [kind |-> "ERROR", percent |-> 0, status |-> message, pos |-> 0, total |-> 0,
     detail |-> detail]

\* the interpreter's report of an exception no except clause caught
TracebackLine(e) ==
    [kind |-> "TRACEBACK", percent |-> 0, status |-> e.class, pos |-> 0, total |-> 0,
     detail |-> e.msg]

emit_progress(percent, label, pos, total) ==
    stderr' = Append(stderr, ProgressLine(percent, label, pos, total))

-----------------------------------------------------------------------------
(* Pure functions of the code *)

RECURSIVE LStrip(_)
LStrip(s) == IF s # <<>> /\ Head(s) \in Whitespace THEN LStrip(Tail(s)) ELSE s

RECURSIVE RStrip(_)
RStrip(s) ==
    IF s # <<>> /\ s[Len(s)] \in Whitespace THEN RStrip(SubSeq(s, 1, Len(s) - 1)) ELSE s

\* a mutant of Strip: only the leading whitespace is removed
StripLeadingOnly(s) == LStrip(s)

\* segment.text.strip()
Strip(s) == RStrip(LStrip(s))

\* sep.join(parts)
RECURSIVE Join(_, _)
Join(sep, parts) ==
    IF parts = <<>> THEN <<>>
    ELSE IF Len(parts) = 1 THEN parts[1]
    ELSE parts[1] \o sep \o Join(sep, Tail(parts))

RECURSIVE GCD(_, _)
GCD(a, b) == IF b = 0 THEN a ELSE GCD(b, a % b)

\* a non-negative rational number as a reduced pair <<numerator, denominator>>
Rational(n, d) == LET g == GCD(n, d) IN <<n \div g, d \div g>>

\* i / total_segments, Python's true division.  The code computes it in IEEE
\* doubles, the model exactly: int((i / N) * 80) is the same integer either
\* way.  When 80 i / N is no integer it lies at least 1 / N from the next one,
\* far more than the two roundings move it (below 2^-45) for any N a run can
\* reach; when it is an integer k, i / N is the real number k / 80, and the
\* double computation returns k for each k in 0..79.
TrueDiv(a, b) == Rational(a, b)

\* q * k
Times(q, k) == Rational(q[1] * k, q[2])

\* int(q): truncation toward zero of a non-negative number
IntOf(q) == q[1] \div q[2]

\* a mutant of SegmentProgress: the fraction counts the segment just processed
SegmentProgressOffByOne(idx, total) == 10 + IntOf(Times(TrueDiv(idx + 1, total), 80))

\* progress = 10 + int((i / total_segments) * 80)
SegmentProgress(idx, total) == 10 + IntOf(Times(TrueDiv(idx, total), 80))

\* the exception class json.dumps(r) raises, "none" when it returns
JsonDumpsRaises(r) ==
    CASE r.duration.tag = "object" -> "TypeError"
      [] r.duration.tag = "cycle" -> "ValueError"
      [] OTHER -> "none"

\* the line json.dumps(r) returns: one JSON object with the keys text, language,
\* duration, segments, the duration encoded as its number
JsonDumps(r) ==
    [kind |-> "JSON", text |-> r.text, language |-> r.language, duration |-> r.duration.v,
     segments |-> r.segments]

-----------------------------------------------------------------------------
(* The state after argument parsing, before main() validates the path *)

Init ==
    /\ pc = "main"
    /\ audio \in AudioPaths
    /\ stderr = <<>>
    /\ stdout = <<>>
    /\ exit_code = Running
    /\ exc = NoExc
    /\ model_loaded = FALSE
    /\ segments = <<>>
    /\ info = NoInfo
    /\ total_segments = 0
    /\ i = 0
    /\ segments_list = <<>>
    /\ full_text_parts = <<>>
    /\ result = NoResult

-----------------------------------------------------------------------------
(* main(), before the call of transcribe() *)

\* a mutant of AudioMissing: the error is printed but sys.exit(1) is missing, so
\* main() goes on to call transcribe()
AudioMissingNoExit ==
    /\ pc = "main"
    /\ ~PathExists(audio)
    /\ stderr' = stderr \o <<ErrorLine("Audio file not found", audio),
                             ProgressLine(0, "Loading model...", 0, 0)>>
    /\ pc' = "load"
    /\ UNCHANGED <<audio, stdout, exit_code, exc, model_loaded, segments, info,
                   total_segments, i, segments_list, full_text_parts, result>>

\* the path does not exist: one ERROR line, sys.exit(1)
AudioMissing ==
    /\ pc = "main"
    /\ ~PathExists(audio)
    /\ stderr' = Append(stderr, ErrorLine("Audio file not found", audio))
    /\ exit_code' = 1
    /\ pc' = "exited"
    /\ UNCHANGED <<audio, stdout, exc, model_loaded, segments, info, total_segments, i,
                   segments_list, full_text_parts, result>>

\* the path exists: main() calls transcribe(), which emits its first event
TranscribeStart ==
    /\ pc = "main"
    /\ PathExists(audio)
    /\ emit_progress(0, "Loading model...", 0, 0)
    /\ pc' = "load"
    /\ UNCHANGED <<audio, stdout, exit_code, exc, model_loaded, segments, info,
                   total_segments, i, segments_list, full_text_parts, result>>

-----------------------------------------------------------------------------
(* transcribe() *)

\* WhisperModel(model_name, compute_type=compute_type) returns
LoadModel ==
    /\ pc = "load"
    /\ model_loaded' = TRUE
    /\ emit_progress(10, "Transcribing...", 0, 0)
    /\ pc' = "recognize"
    /\ UNCHANGED <<audio, stdout, exit_code, exc, segments, info, total_segments, i,
                   segments_list, full_text_parts, result>>

\* WhisperModel(...) raises
LoadModelRaises ==
    /\ pc = "load"
    /\ \E e \in EngineException : exc' = e
    /\ pc' = "raised"
    /\ UNCHANGED <<audio, stderr, stdout, exit_code, model_loaded, segments, info,
                   total_segments, i, segments_list, full_text_parts, result>>

\* model.transcribe(...) returns the lazy generator and the metadata
Recognize ==
    /\ pc = "recognize"
    /\ \E m \in EngineInfo : info' = m
    /\ segments' = <<>>
    /\ segments_list' = <<>>
    /\ full_text_parts' = <<>>
    /\ pc' = "materialize"
    /\ UNCHANGED <<audio, stderr, stdout, exit_code, exc, model_loaded, total_segments, i,
                   result>>

\* model.transcribe(...) raises
RecognizeRaises ==
    /\ pc = "recognize"
    /\ \E e \in EngineException : exc' = e
    /\ pc' = "raised"
    /\ UNCHANGED <<audio, stderr, stdout, exit_code, model_loaded, segments, info,
                   total_segments, i, segments_list, full_text_parts, result>>

\* a mutant of MaterializeNext: the generator is consumed by the loop itself, and
\* each segment's progress event is emitted as soon as the segment is yielded
MaterializeNextStreaming ==
    /\ pc = "materialize"
    /\ \E seg \in EngineSegment \cup {PlainSegment} :
          /\ CanYield(segments, seg)
          /\ segments' = Append(segments, seg)
    /\ emit_progress(10, "Processing segment", Len(segments) + 1, Len(segments) + 1)
    /\ UNCHANGED <<pc, audio, stdout, exit_code, exc, model_loaded, info, total_segments, i,
                   segments_list, full_text_parts, result>>

\* list(segments) pulls the next segment from the generator
MaterializeNext ==
    /\ pc = "materialize"
    /\ \E seg \in EngineSegment \cup {PlainSegment} :
          /\ CanYield(segments, seg)
          /\ segments' = Append(segments, seg)
    /\ UNCHANGED <<pc, audio, stderr, stdout, exit_code, exc, model_loaded, info,
                   total_segments, i, segments_list, full_text_parts, result>>

\* the generator raises while list(segments) pulls from it
MaterializeRaises ==
    /\ pc = "materialize"
    /\ \E e \in EngineException : exc' = e
    /\ pc' = "raised"
    /\ UNCHANGED <<audio, stderr, stdout, exit_code, model_loaded, segments, info,
                   total_segments, i, segments_list, full_text_parts, result>>

\* the generator is exhausted: list(segments) returns, the loop starts
MaterializeDone ==
    /\ pc = "materialize"
    /\ total_segments' = Len(segments)
    /\ i' = 0
    /\ pc' = "loop"
    /\ UNCHANGED <<audio, stderr, stdout, exit_code, exc, model_loaded, segments, info,
                   segments_list, full_text_parts, result>>

\* a mutant of SegmentRecord: the ids are one-based
SegmentRecordOneBased(idx, segment) ==
    [id |-> idx + 1, start |-> segment.start, end |-> segment.end,
     text |-> Strip(segment.text)]

\* {"id": i, "start": segment.start, "end": segment.end, "text": segment.text.strip()}
SegmentRecord(idx, segment) ==
    [id |-> idx, start |-> segment.start, end |-> segment.end, text |-> Strip(segment.text)]

\* a mutant of LoopBody: each segment is also written to stdout as it is processed
LoopBodyStreaming ==
    /\ pc = "loop"
    /\ i < Len(segments)
    /\ segments_list' = Append(segments_list, SegmentRecord(i, segments[i + 1]))
    /\ full_text_parts' = Append(full_text_parts, Strip(segments[i + 1].text))
    /\ stdout' = Append(stdout, SegmentRecord(i, segments[i + 1]))
    /\ IF total_segments > 0
       THEN emit_progress(SegmentProgress(i, total_segments), "Processing segment", i + 1,
                          total_segments)
       ELSE UNCHANGED stderr
    /\ i' = i + 1
    /\ UNCHANGED <<pc, audio, exit_code, exc, model_loaded, segments, info, total_segments,
                   result>>

\* a mutant of LoopBody: the progress event is guarded by i > 0
LoopBodySkipsFirst ==
    /\ pc = "loop"
    /\ i < Len(segments)
    /\ segments_list' = Append(segments_list, SegmentRecord(i, segments[i + 1]))
    /\ full_text_parts' = Append(full_text_parts, Strip(segments[i + 1].text))
    /\ IF i > 0
       THEN emit_progress(SegmentProgress(i, total_segments), "Processing segment", i + 1,
                          total_segments)
       ELSE UNCHANGED stderr
    /\ i' = i + 1
    /\ UNCHANGED <<pc, audio, stdout, exit_code, exc, model_loaded, segments, info,
                   total_segments, result>>

\* one iteration of `for i, segment in enumerate(segments)`
LoopBody ==
    /\ pc = "loop"
    /\ i < Len(segments)
    /\ segments_list' = Append(segments_list, SegmentRecord(i, segments[i + 1]))
    /\ full_text_parts' = Append(full_text_parts, Strip(segments[i + 1].text))
    /\ IF total_segments > 0
       THEN emit_progress(SegmentProgress(i, total_segments), "Processing segment", i + 1,
                          total_segments)
       ELSE UNCHANGED stderr
    /\ i' = i + 1
    /\ UNCHANGED <<pc, audio, stdout, exit_code, exc, model_loaded, segments, info,
                   total_segments, result>>

\* the loop is over: the 90 event, then the result dict is built
Finalize ==
    /\ pc = "loop"
    /\ i = Len(segments)
    /\ emit_progress(90, "Finalizing...", 0, 0)
    /\ result' = [text |-> Join(<<" ">>, full_text_parts), language |-> info.language,
                  duration |-> info.duration, segments |-> segments_list]
    /\ pc' = "complete"
    /\ UNCHANGED <<audio, stdout, exit_code, exc, model_loaded, segments, info,
                   total_segments, i, segments_list, full_text_parts>>

\* the 100 event, then transcribe() returns the result to main()
Complete ==
    /\ pc = "complete"
    /\ emit_progress(100, "Complete", 0, 0)
    /\ pc' = "serialize"
    /\ UNCHANGED <<audio, stdout, exit_code, exc, model_loaded, segments, info,
                   total_segments, i, segments_list, full_text_parts, result>>

-----------------------------------------------------------------------------
(* main(), after the call of transcribe() *)

\* except RuntimeError as e
ExceptRuntimeError ==
    /\ pc = "raised"
    /\ exc.class = "RuntimeError"
    /\ stderr' = Append(stderr, ErrorLine("Transcription failed (runtime error)", exc.msg))
    /\ exit_code' = 1
    /\ pc' = "exited"
    /\ UNCHANGED <<audio, stdout, exc, model_loaded, segments, info, total_segments, i,
                   segments_list, full_text_parts, result>>

\* except ValueError as e
ExceptValueError ==
    /\ pc = "raised"
    /\ exc.class = "ValueError"
    /\ stderr' = Append(stderr, ErrorLine("Transcription failed (invalid parameter)", exc.msg))
    /\ exit_code' = 1
    /\ pc' = "exited"
    /\ UNCHANGED <<audio, stdout, exc, model_loaded, segments, info, total_segments, i,
                   segments_list, full_text_parts, result>>

\* no except clause of main() matches: the exception leaves main(), the
\* interpreter prints the traceback on stderr and the process ends with status 1
UncaughtException ==
    /\ pc = "raised"
    /\ exc.class \notin {"RuntimeError", "ValueError"}
    /\ stderr' = Append(stderr, TracebackLine(exc))
    /\ exit_code' = 1
    /\ pc' = "exited"
    /\ UNCHANGED <<audio, stdout, exc, model_loaded, segments, info, total_segments, i,
                   segments_list, full_text_parts, result>>

\* print(json.dumps(result)); main() returns and the process ends with status 0
PrintResult ==
    /\ pc = "serialize"
    /\ JsonDumpsRaises(result) = "none"
    /\ stdout' = Append(stdout, JsonDumps(result))
    /\ exit_code' = 0
    /\ pc' = "exited"
    /\ UNCHANGED <<audio, stderr, exc, model_loaded, segments, info, total_segments, i,
                   segments_list, full_text_parts, result>>

\* a mutant of SerializationFails: the error message goes to stdout
SerializationFailsToStdout ==
    /\ pc = "serialize"
    /\ JsonDumpsRaises(result) \in {"TypeError", "ValueError"}
    /\ stdout' = Append(stdout, ErrorLine("Transcription failed (serialization error)",
                                          JsonDumpsRaises(result)))
    /\ exit_code' = 1
    /\ pc' = "exited"
    /\ UNCHANGED <<audio, stderr, exc, model_loaded, segments, info, total_segments, i,
                   segments_list, full_text_parts, result>>

\* json.dumps(result) raises before anything is printed; except (TypeError, ValueError)
SerializationFails ==
    /\ pc = "serialize"
    /\ JsonDumpsRaises(result) \in {"TypeError", "ValueError"}
    /\ stderr' = Append(stderr, ErrorLine("Transcription failed (serialization error)",
                                          JsonDumpsRaises(result)))
    /\ exit_code' = 1
    /\ pc' = "exited"
    /\ UNCHANGED <<audio, stdout, exc, model_loaded, segments, info, total_segments, i,
                   segments_list, full_text_parts, result>>

-----------------------------------------------------------------------------

Next ==
    \/ AudioMissing
    \/ TranscribeStart
    \/ LoadModel
    \/ LoadModelRaises
    \/ Recognize
    \/ RecognizeRaises
    \/ MaterializeNext
    \/ MaterializeRaises
    \/ MaterializeDone
    \/ LoopBody
    \/ Finalize
    \/ Complete
    \/ ExceptRuntimeError
    \/ ExceptValueError
    \/ UncaughtException
    \/ PrintResult
    \/ SerializationFails

Spec == Init /\ [][Next]_vars

-----------------------------------------------------------------------------
(* Vocabulary of the properties *)

IsProgress(line) == line.kind = "PROGRESS"
IsError(line) == line.kind = "ERROR"
IsPerSegment(line) == line.kind = "PROGRESS" /\ line.status = "Processing segment"

\* the progress events of the run so far, in the order they were written
ProgressEvents == SelectSeq(stderr, IsProgress)
\* the ERROR lines of the run so far
ErrorLines == SelectSeq(stderr, IsError)

Loading == ProgressLine(0, "Loading model...", 0, 0)
Transcribing == ProgressLine(10, "Transcribing...", 0, 0)
Finalizing == ProgressLine(90, "Finalizing...", 0, 0)
Completed == ProgressLine(100, "Complete", 0, 0)

\* the process has ended
Exited == pc = "exited"
\* transcribe() raised
TranscribeFailed == exc # NoExc
\* transcribe() returned its result to main()
TranscribeReturned == pc = "serialize" \/ (pc = "exited" /\ result # NoResult)
\* json.dumps(result) raised
SerializationFailed == Exited /\ result # NoResult /\ JsonDumpsRaises(result) # "none"
\* main() found no file at the path
AudioRejected == Exited /\ ~PathExists(audio)
\* some error has occurred in the run
ErrorOccurred == AudioRejected \/ TranscribeFailed \/ SerializationFailed

\* the positions of s that hold no whitespace
Solid(s) == {k \in 1..Len(s) : s[k] \notin Whitespace}
\* s without its leading and trailing whitespace: from its first to its last
\* non-whitespace character
Trimmed(s) ==
    IF Solid(s) = {} THEN <<>>
    ELSE LET first == CHOOSE k \in Solid(s) : \A j \in Solid(s) : k <= j
             last == CHOOSE k \in Solid(s) : \A j \in Solid(s) : j <= k
         IN  SubSeq(s, first, last)

\* the trimmed texts of the first n engine segments, a single space between
\* each two neighbours
RECURSIVE SpaceJoined(_, _)
SpaceJoined(segs, n) ==
    IF n = 0 THEN <<>>
    ELSE IF n = 1 THEN Trimmed(segs[1].text)
    ELSE SpaceJoined(segs, n - 1) \o <<" ">> \o Trimmed(segs[n].text)

-----------------------------------------------------------------------------
(* The claims *)

\* C1: in every run in which an error occurs (missing audio file, an engine
\* failure of any class at model load, at the recognition call or while the
\* generator is consumed, a serialization failure) stdout holds nothing, the
\* run does not stop before the process has ended, and the exit code is 1.
C1_ErrorExitsOneWithEmptyStdout ==
    ErrorOccurred =>
        /\ stdout = <<>>
        /\ Exited => exit_code = 1
        /\ ~Exited => ENABLED Next

\* an engine failure of a class main() has no except clause for, raised after
\* the generator yielded a segment, has ended the run
C1_Witness ==
    /\ Exited
    /\ exc.class = "OSError"
    /\ Len(segments) >= 1
    /\ exit_code = 1
    /\ stdout = <<>>

\* C2: every run that an error ended has written an ERROR line to stderr,
\* whatever the class of the failure the engine raised.
C2_EveryFailureHasErrorLine ==
    (Exited /\ exit_code # 0) => \E k \in 1..Len(stderr) : IsError(stderr[k])

\* C3: stdout is written exactly once in a successful run, one line holding
\* the complete JSON result, with exit code 0; the write happens after
\* transcribe() has returned, so after the event {100, "Complete"}, the last
\* line of stderr; at no earlier point of any run does stdout hold anything.
C3_SingleWriteAfterCompletion ==
    /\ Len(stdout) <= 1
    /\ stdout # <<>> =>
          /\ Exited
          /\ exit_code = 0
          /\ result # NoResult
          /\ stderr # <<>>
          /\ stderr[Len(stderr)] = Completed
          /\ stdout[1].kind = "JSON"
          /\ stdout = <<JsonDumps(result)>>
          /\ stdout[1].text = result.text
          /\ stdout[1].language = result.language
          /\ stdout[1].segments = result.segments
          /\ Len(stdout[1].segments) = Len(segments)
    /\ (Exited /\ exit_code = 0) => Len(stdout) = 1

\* a successful run of two segments has ended
C3_Witness ==
    /\ Exited
    /\ exit_code = 0
    /\ Len(stdout) = 1
    /\ Len(stdout[1].segments) = 2

\* C4: when the --audio path does not exist the engine is never loaded, no
\* progress event is emitted, stdout stays empty, and the run ends with exit
\* code 1 and exactly one line on stderr, an ERROR line that holds the path.
C4_MissingAudio ==
    ~PathExists(audio) =>
        /\ pc \in {"main", "exited"}
        /\ ~model_loaded
        /\ ProgressEvents = <<>>
        /\ stdout = <<>>
        /\ pc = "main" => stderr = <<>>
        /\ Exited =>
              /\ exit_code = 1
              /\ Len(stderr) = 1
              /\ IsError(stderr[1])
              /\ stderr[1].status = "Audio file not found"
              /\ stderr[1].detail = audio

\* the run on a missing path has ended
C4_Witness == Exited /\ audio = "gone.wav" /\ exit_code = 1

\* C5: when transcribe() completes on an engine output of N segments, the
\* progress events are {0, Loading}, {10, Transcribing}, N per-segment events
\* of which the k-th names position k of N, {90, Finalizing}, {100, Complete}:
\* N + 4 events, none per segment when N = 0.
C5_ProgressSequence ==
    TranscribeReturned =>
        LET ev == ProgressEvents
            n == Len(segments)
        IN  /\ Len(ev) = n + 4
            /\ ev[1] = Loading
            /\ ev[2] = Transcribing
            /\ \A k \in 1..n :
                  /\ IsPerSegment(ev[2 + k])
                  /\ ev[2 + k].pos = k
                  /\ ev[2 + k].total = n
            /\ ev[n + 3] = Finalizing
            /\ ev[n + 4] = Completed
            /\ Cardinality({k \in 1..Len(ev) : IsPerSegment(ev[k])}) = n

\* transcribe() has returned on an engine output of three segments or more
C5_Witness == TranscribeReturned /\ Len(segments) >= 3

\* C6: the percent of the per-segment event of zero-based index i of N is
\* 10 + floor((i * 80) / N) and lies in [10, 90]; the percents of the whole
\* progress stream never decrease and all lie in [0, 100].
C6_PercentFormula ==
    LET ev == ProgressEvents
    IN  /\ \A k \in 1..Len(ev) : ev[k].percent \in 0..100
        /\ \A k \in 1..(Len(ev) - 1) : ev[k].percent <= ev[k + 1].percent
        /\ \A k \in 1..Len(ev) :
              IsPerSegment(ev[k]) =>
                  /\ ev[k].total >= 1
                  /\ ev[k].pos \in 1..ev[k].total
                  /\ ev[k].percent = 10 + ((ev[k].pos - 1) * 80) \div ev[k].total
                  /\ ev[k].percent \in 10..90

\* the event of the last of three segments (percent 63) has been emitted
C6_Witness ==
    \E k \in 1..Len(stderr) :
        IsPerSegment(stderr[k]) /\ stderr[k].pos = 3 /\ stderr[k].total = 3

\* C7: the text of the result is the texts of the engine's segments, each
\* without its leading and trailing whitespace, joined in order with one
\* space; the empty string when there is no segment.
C7_TextIsSpaceJoinedTrimmedTexts ==
    result # NoResult => result.text = SpaceJoined(segments, Len(segments))

\* a result of two segments, the first with leading whitespace, the second
\* nothing but whitespace
C7_Witness ==
    /\ result # NoResult
    /\ Len(segments) = 2
    /\ segments[1].text = <<" ", "a">>
    /\ segments[2].text = <<" ">>
    /\ result.text = <<"a", " ">>

C9_TwoFailurePoints ==
    (Exited /\ PathExists(audio) /\ exit_code # 0) =>
        /\ exit_code = 1
        /\ Len(ErrorLines) = 1
        /\ TranscribeFailed =>
              /\ result = NoResult
              /\ ErrorLines[1].status \in {"Transcription failed (runtime error)",
                                           "Transcription failed (invalid parameter)"}
        /\ ~TranscribeFailed =>
              /\ result # NoResult
              /\ ProgressEvents[Len(ProgressEvents)] = Completed
              /\ ErrorLines[1].status = "Transcription failed (serialization error)"

\* C10: no per-segment event is emitted before the generator has been
\* consumed to its end; a run in which the model load fails has the single
\* progress event {0}, a run in which the recognition call or the generator
\* fails has exactly {0}, {10}; no failing transcription emits a per-segment,
\* a 90 or a 100 event.
C10_EagerMaterialization ==
    /\ (\E k \in 1..Len(stderr) : IsPerSegment(stderr[k])) =>
          /\ pc \in {"loop", "complete", "serialize", "exited"}
          /\ ~TranscribeFailed
          /\ total_segments = Len(segments)
    /\ pc = "materialize" => ProgressEvents = <<Loading, Transcribing>>
    /\ TranscribeFailed =>
          ProgressEvents = IF model_loaded THEN <<Loading, Transcribing>> ELSE <<Loading>>

\* the generator has failed after it yielded two segments
C10_Witness ==
    /\ TranscribeFailed
    /\ Exited
    /\ Len(segments) = 2
    /\ ProgressEvents = <<Loading, Transcribing>>

====
